---- MODULE Spec2Model ----
(***************************************************************************)
(* rig: a Bubble Tea TUI toolkit.  The model covers the message-driven     *)
(* core: the git-branch and test-changed tool models, the home screen,     *)
(* the app shell, the standalone adapter, and the runtime that executes    *)
(* the commands they return and delivers the resulting messages.           *)
(*                                                                         *)
(* Text (branch names, the text-input value, upstream refs) is a sequence  *)
(* of one-character strings.  Error texts and tags are opaque strings.     *)
(* Every Update function is an operator from (model, message) to a record  *)
(* [m |-> new model, cmd |-> batch of commands, panic |-> index error].    *)
(***************************************************************************)
EXTENDS Integers, Sequences, FiniteSets, Bags, TLC

\* ------------------------------------------------------------------ bounds
\* longest branch list a fetch returns
MaxBranches == 2
\* longest text the user types into the text input
MaxInput == 2
\* most commands in flight at once
MaxPending == 1
\* most test targets a discovery returns
MaxTargets == 1
\* most commands in flight at once under the app shell, where the commands
\* of discarded screens stay in flight
MaxStale == 3

\* --------------------------------------------------------------- text
\* strings.TrimSpace on a character sequence
RECURSIVE TrimLeft(_)
TrimLeft(s) ==
  IF s # <<>> /\ Head(s) = " " THEN TrimLeft(Tail(s)) ELSE s

RECURSIVE TrimRight(_)
TrimRight(s) ==
  IF s # <<>> /\ s[Len(s)] = " " THEN TrimRight(SubSeq(s, 1, Len(s) - 1)) ELSE s

\* variant: the text is taken as typed
TrimSpace_AsTyped(s) == s

TrimSpace(s) == TrimRight(TrimLeft(s))

\* index of the first "/" of s, 0 when there is none (strings.Cut)
RECURSIVE IndexOfSlash(_, _)
IndexOfSlash(s, i) ==
  IF i > Len(s) THEN 0
  ELSE IF s[i] = "/" THEN i
  ELSE IndexOfSlash(s, i + 1)

\* variant: the text is split at its last "/"
splitUpstream_LastSlash(upstream) ==
  LET idx == {i \in 1..Len(upstream) : upstream[i] = "/"} IN
  IF idx = {}
    THEN [remote |-> upstream, branch |-> upstream]
    ELSE LET i == CHOOSE j \in idx : \A k \in idx : k <= j IN
         [remote |-> SubSeq(upstream, 1, i - 1),
          branch |-> SubSeq(upstream, i + 1, Len(upstream))]

splitUpstream(upstream) ==
  LET i == IndexOfSlash(upstream, 1) IN
  IF i = 0
    THEN [remote |-> upstream, branch |-> upstream]
    ELSE [remote |-> SubSeq(upstream, 1, i - 1),
          branch |-> SubSeq(upstream, i + 1, Len(upstream))]

\* ---------------------------------------------------------- branch data
\* The error value nil.  Error texts are strings; a git error may have
\* the empty text (checkoutBranch wraps the bare stderr).
NoErr == "<nil>"

ZeroBranch ==
  [Name |-> <<>>, Upstream |-> <<>>, IsCurrent |-> FALSE, HasRemote |-> FALSE]

NameChars == <<"a", "b", "c", "d", "e">>

\* the i-th branch of the repository: odd ones track a remote
RepoBranch(i, isCurrent) ==
  LET up == IF i % 2 = 1 THEN <<"o", "/", NameChars[i]>> ELSE <<>> IN
  [Name |-> <<NameChars[i]>>, Upstream |-> up,
   IsCurrent |-> isCurrent, HasRemote |-> up # <<>>]

\* what getBranches can return: a window of the repository's branches, in
\* refname order, with at most one of them checked out
BranchLists ==
  { [i \in 1..n |-> RepoBranch(s + i - 1, i = cur)] :
      <<s, n, cur>> \in { t \in (1..MaxBranches) \X (0..MaxBranches) \X (0..MaxBranches) :
                            /\ t[1] + t[2] - 1 <= MaxBranches
                            /\ t[3] <= t[2]
                            /\ (t[2] = 0 => t[1] = 1) } }

\* ------------------------------------------------------------- commands
CmdFetchBranches == [kind |-> "fetchBranches"]
CmdBack          == [kind |-> "BackMsg"]
CmdQuit          == [kind |-> "tea.Quit"]
CmdSpinnerTick   == [kind |-> "spinner.Tick"]
CmdStopwatchReset == [kind |-> "stopwatch.Reset"]
CmdStopwatchStart == [kind |-> "stopwatch.Start"]

cmdCheckout(name) == [kind |-> "cmdCheckout", name |-> name]
cmdDelete(name)   == [kind |-> "cmdDelete", name |-> name]
cmdCreate(name)   == [kind |-> "cmdCreate", name |-> name]
cmdRenameLocal(m, newName) ==
  [kind |-> "cmdRenameLocal", oldName |-> m.editing.Name, newName |-> newName]
cmdRenameAll(m, newName) ==
  [kind |-> "cmdRenameAll", oldName |-> m.editing.Name, newName |-> newName,
   upstream |-> m.editing.Upstream]

\* the value an Update returns
Ret(m, cmd) == [m |-> m, cmd |-> cmd, panic |-> FALSE]
\* an index out of range ends the program
Panic(m) == [m |-> m, cmd |-> <<>>, panic |-> TRUE]

\* ------------------------------------------------------------ git-branch
GB_New ==
  [type |-> "gitbranch", state |-> "Loading", branches |-> <<>>, cursor |-> 0,
   input |-> <<>>, editing |-> ZeroBranch, didRemote |-> FALSE,
   result |-> <<>>, errSplash |-> "", confirmIdx |-> 0,
   width |-> 0, height |-> 0,
   deleteStaged |-> FALSE, deleteStagedIdx |-> 0]

GB_Init(m) == <<CmdFetchBranches, CmdSpinnerTick, CmdStopwatchStart>>

GB_startAsync(m, state, cmd) ==
  Ret([m EXCEPT !.state = state],
      <<cmd, CmdSpinnerTick, CmdStopwatchReset, CmdStopwatchStart>>)

\* variant: the splash is set and the view-state is left as it was
GB_showError_StateKept(m, err) == [m EXCEPT !.errSplash = err]

GB_showError(m, err) ==
  [m EXCEPT !.state = "Browse", !.errSplash = err]

GB_branchExists(m, name) ==
  \E i \in 1..Len(m.branches) : m.branches[i].Name = name

\* textinput.Model.Update with the cursor at the end of the value: a rune
\* is appended up to the length limit, backspace removes the last rune
RuneKeys == {"a", "b", " ", "e", "c", "d", "r", "q", "y", "n", "u", "k", "j", "h", "l"}

InputUpdate(value, key) ==
  IF key = "backspace"
    THEN (IF value = <<>> THEN value ELSE SubSeq(value, 1, Len(value) - 1))
  ELSE IF key \in RuneKeys /\ Len(value) < MaxInput
    THEN Append(value, key)
  ELSE value

InRange(m) == m.cursor >= 0 /\ m.cursor < Len(m.branches)

\* any key other than d clears delete staging
GB_clearStaging(m, k) ==
  IF k # "d" THEN [m EXCEPT !.deleteStaged = FALSE] ELSE m

\* variant: the checked-out branch is treated like any other
GB_skipCurrent_Never(b) == FALSE

\* enter and d do nothing on the checked-out branch
GB_skipCurrent(b) == b.IsCurrent

\* variant: the staged index is not compared with the cursor
GB_deleteArmed_AnyIndex(m) == m.deleteStaged

\* variant: a single d executes the delete
GB_deleteArmed_FirstPress(m) == TRUE

\* the second d on the staged index executes the delete
GB_deleteArmed(m) == m.deleteStaged /\ m.deleteStagedIdx = m.cursor

GB_keyBrowse(m0, k) ==
  LET m == GB_clearStaging(m0, k) IN
  CASE k \in {"q", "esc"} -> Ret(m, <<CmdBack>>)
    [] k \in {"up", "k"} ->
         Ret(IF m.cursor > 0 THEN [m EXCEPT !.cursor = @ - 1] ELSE m, <<>>)
    [] k \in {"down", "j"} ->
         Ret(IF m.cursor < Len(m.branches) - 1 THEN [m EXCEPT !.cursor = @ + 1] ELSE m, <<>>)
    [] k = "enter" ->
         IF Len(m.branches) > 0
           THEN IF ~InRange(m) THEN Panic(m)
                ELSE LET b == m.branches[m.cursor + 1] IN
                     IF GB_skipCurrent(b) THEN Ret(m, <<>>)
                     ELSE GB_startAsync([m EXCEPT !.editing = b], "Processing",
                                        cmdCheckout(b.Name))
           ELSE Ret(m, <<>>)
    [] k = "e" ->
         IF Len(m.branches) > 0
           THEN IF ~InRange(m) THEN Panic(m)
                ELSE LET b == m.branches[m.cursor + 1] IN
                     Ret([m EXCEPT !.editing = b, !.input = b.Name, !.state = "Edit"], <<>>)
           ELSE Ret(m, <<>>)
    [] k = "c" -> Ret([m EXCEPT !.input = <<>>, !.state = "Create"], <<>>)
    [] k = "d" ->
         IF Len(m.branches) = 0 THEN Ret(m, <<>>)
         ELSE IF ~InRange(m) THEN Panic(m)
         ELSE LET b == m.branches[m.cursor + 1] IN
              IF GB_skipCurrent(b) THEN Ret(m, <<>>)
              ELSE IF GB_deleteArmed(m)
                THEN GB_startAsync([m EXCEPT !.editing = b, !.deleteStaged = FALSE],
                                   "Processing", cmdDelete(b.Name))
              ELSE Ret([m EXCEPT !.deleteStaged = TRUE, !.deleteStagedIdx = m.cursor], <<>>)
    [] k = "r" -> GB_startAsync(m, "Loading", CmdFetchBranches)
    [] OTHER -> Ret(m, <<>>)

\* variant: an empty name is the only one that cancels the rename
GB_editCancels_EmptyOnly(m, newName) == newName = <<>>

\* the submitted name makes the rename a cancel
GB_editCancels(m, newName) == newName = <<>> \/ newName = m.editing.Name

\* variant: the remote is never asked about
GB_needsConfirm_Never(m) == FALSE

\* the rename asks whether the remote is to be updated
GB_needsConfirm(m) == m.editing.HasRemote

GB_keyEdit(m, k) ==
  CASE k = "esc" -> Ret([m EXCEPT !.state = "Browse"], <<>>)
    [] k = "enter" ->
         LET newName == TrimSpace(m.input) IN
         IF GB_editCancels(m, newName)
           THEN Ret([m EXCEPT !.state = "Browse"], <<>>)
         ELSE IF GB_needsConfirm(m)
           THEN Ret([m EXCEPT !.state = "ConfirmRemote", !.confirmIdx = 0], <<>>)
         ELSE GB_startAsync(m, "Processing", cmdRenameLocal(m, newName))
    [] OTHER -> Ret([m EXCEPT !.input = InputUpdate(@, k)], <<>>)

GB_keyCreate(m, k) ==
  CASE k = "esc" -> Ret([m EXCEPT !.state = "Browse"], <<>>)
    [] k = "enter" ->
         LET newName == TrimSpace(m.input) IN
         IF newName = <<>> \/ GB_branchExists(m, newName)
           THEN Ret(m, <<>>)
           ELSE GB_startAsync(m, "Processing", cmdCreate(newName))
    [] OTHER -> Ret([m EXCEPT !.input = InputUpdate(@, k)], <<>>)

GB_keyConfirmRemote(m, k) ==
  LET newName == TrimSpace(m.input)
      yes == GB_startAsync([m EXCEPT !.didRemote = TRUE], "Processing",
                           cmdRenameAll(m, newName))
      no  == GB_startAsync([m EXCEPT !.didRemote = FALSE], "Processing",
                           cmdRenameLocal(m, newName))
  IN
  CASE k = "esc" -> Ret([m EXCEPT !.state = "Browse"], <<>>)
    [] k \in {"left", "h", "shift+tab"} -> Ret([m EXCEPT !.confirmIdx = 0], <<>>)
    [] k \in {"right", "l", "tab"} -> Ret([m EXCEPT !.confirmIdx = 1], <<>>)
    [] k = "y" -> yes
    [] k = "n" -> no
    [] k \in {"enter", " "} -> IF m.confirmIdx = 0 THEN yes ELSE no
    [] OTHER -> Ret(m, <<>>)

GB_keyResult(m, k) ==
  IF k \in {"q", "esc"}
    THEN Ret(m, <<CmdBack>>)
    ELSE GB_startAsync([m EXCEPT !.cursor = 0], "Loading", CmdFetchBranches)

\* variant: r reloads the branch list while an operation is in flight
GB_handleKey_ReloadWhileWaiting(m, k) ==
  CASE m.state = "Browse" -> GB_keyBrowse(m, k)
    [] m.state = "Edit" -> GB_keyEdit(m, k)
    [] m.state = "Create" -> GB_keyCreate(m, k)
    [] m.state = "ConfirmRemote" -> GB_keyConfirmRemote(m, k)
    [] m.state = "Result" -> GB_keyResult(m, k)
    [] OTHER -> IF k = "r" THEN GB_startAsync(m, "Loading", CmdFetchBranches)
                ELSE Ret(m, <<>>)

GB_handleKey(m, k) ==
  CASE m.state = "Browse" -> GB_keyBrowse(m, k)
    [] m.state = "Edit" -> GB_keyEdit(m, k)
    [] m.state = "Create" -> GB_keyCreate(m, k)
    [] m.state = "ConfirmRemote" -> GB_keyConfirmRemote(m, k)
    [] m.state = "Result" -> GB_keyResult(m, k)
    [] OTHER -> Ret(m, <<>>)

GB_onWindowSize(m, msg) ==
  Ret([m EXCEPT !.width = msg.Width, !.height = msg.Height], <<>>)

\* variant: the cursor is left where it was when the list is replaced
GB_onBranchesLoaded_NoClamp(m, msg) ==
  IF msg.err # NoErr
    THEN Ret(GB_showError(m, msg.err), <<>>)
    ELSE Ret([m EXCEPT !.state = "Browse", !.branches = msg.branches], <<>>)

GB_onBranchesLoaded(m, msg) ==
  IF msg.err # NoErr
    THEN Ret(GB_showError(m, msg.err), <<>>)
    ELSE LET n == Len(msg.branches) IN
         Ret([m EXCEPT !.state = "Browse", !.branches = msg.branches,
                       !.cursor = IF m.cursor >= n /\ n > 0 THEN n - 1 ELSE @],
             <<>>)

\* variant: every rename error goes to the splash
GB_onRenameResult_AnyError(m, msg) ==
  IF msg.err # NoErr
    THEN Ret([m EXCEPT !.state = "Browse", !.errSplash = msg.err], <<>>)
    ELSE Ret([m EXCEPT !.state = "Result", !.result = <<"Renamed">>], <<>>)

GB_onRenameResult(m, msg) ==
  IF msg.err # NoErr
    THEN IF msg.localOk
           THEN Ret([m EXCEPT !.state = "Result",
                              !.result = <<"Renamed", "RemoteUpdateFailed">>], <<>>)
           ELSE Ret(GB_showError(m, msg.err), <<>>)
    ELSE Ret([m EXCEPT !.state = "Result",
                       !.result = IF m.didRemote /\ msg.remoteOk
                                    THEN <<"Renamed", "UpdatedRemote">>
                                    ELSE <<"Renamed">>], <<>>)

GB_onDeleteResult(m, msg) ==
  IF msg.err # NoErr
    THEN Ret(GB_showError(m, msg.err), <<>>)
    ELSE Ret([m EXCEPT !.state = "Result", !.result = <<"Deleted">>], <<>>)

GB_onCreateResult(m, msg) ==
  IF msg.err # NoErr
    THEN Ret(GB_showError(m, msg.err), <<>>)
    ELSE Ret([m EXCEPT !.state = "Result", !.result = <<"Created">>], <<>>)

\* variant: a successful checkout returns to the list as it is
GB_onCheckoutResult_ToBrowse(m, msg) ==
  IF msg.err # NoErr
    THEN Ret(GB_showError(m, msg.err), <<>>)
    ELSE Ret([m EXCEPT !.state = "Browse"], <<>>)

GB_onCheckoutResult(m, msg) ==
  IF msg.err # NoErr
    THEN Ret(GB_showError(m, msg.err), <<>>)
    ELSE GB_startAsync(m, "Loading", CmdFetchBranches)

\* spinner.Update and stopwatch.Update: a timer message re-issues its tick
TimerUpdate(msg) ==
  IF msg.type = "TickMsg" THEN <<CmdSpinnerTick>> ELSE <<>>

GB_onOther(m, msg) ==
  IF m.state \in {"Loading", "Processing"}
    THEN Ret(m, TimerUpdate(msg))
    ELSE Ret(m, <<>>)

GB_Dispatch(m, msg) ==
  CASE msg.type = "WindowSizeMsg" -> GB_onWindowSize(m, msg)
    [] msg.type = "branchesLoadedMsg" -> GB_onBranchesLoaded(m, msg)
    [] msg.type = "renameResultMsg" -> GB_onRenameResult(m, msg)
    [] msg.type = "deleteResultMsg" -> GB_onDeleteResult(m, msg)
    [] msg.type = "createResultMsg" -> GB_onCreateResult(m, msg)
    [] msg.type = "checkoutResultMsg" -> GB_onCheckoutResult(m, msg)
    [] msg.type = "KeyMsg" -> GB_handleKey(m, msg.key)
    [] OTHER -> GB_onOther(m, msg)

\* variant: the splash is cleared and the key still reaches the handler
GB_Update_KeyPassedOn(m, msg) ==
  IF m.errSplash # "" /\ msg.type = "KeyMsg"
    THEN GB_Dispatch([m EXCEPT !.errSplash = ""], msg)
    ELSE GB_Dispatch(m, msg)

GB_Update(m, msg) ==
  IF m.errSplash # "" /\ msg.type = "KeyMsg"
    THEN Ret([m EXCEPT !.errSplash = ""], <<>>)
    ELSE GB_Dispatch(m, msg)

\* ---------------------------------------------------------- test-changed
CmdLoadTargets == [kind |-> "loadTargets"]
streamLines(runner, targets) ==
  [kind |-> "streamLines", runner |-> runner, targets |-> targets]

TC_New ==
  [type |-> "testchanged", state |-> "Loading", targets |-> <<>>, cursor |-> 0,
   output |-> <<>>, errSplash |-> "", exitCode |-> 0, runnerName |-> "",
   vpWidth |-> 80, vpHeight |-> 30]

TC_Init(m) == <<CmdLoadTargets, CmdSpinnerTick, CmdStopwatchStart>>

TC_startAsync(m, state, cmd) ==
  Ret([m EXCEPT !.state = state],
      <<cmd, CmdSpinnerTick, CmdStopwatchReset, CmdStopwatchStart>>)

TC_showError(m, err) ==
  [m EXCEPT !.state = "Browse", !.errSplash = err]

TC_reload(m) ==
  TC_startAsync([m EXCEPT !.targets = <<>>, !.cursor = 0], "Loading", CmdLoadTargets)

TC_keyBrowse(m, k) ==
  CASE k = "ctrl+c" -> Ret(m, <<CmdQuit>>)
    [] k \in {"q", "esc"} -> Ret(m, <<CmdBack>>)
    [] k \in {"up", "k"} ->
         Ret(IF m.cursor > 0 THEN [m EXCEPT !.cursor = @ - 1] ELSE m, <<>>)
    [] k \in {"down", "j"} ->
         Ret(IF m.cursor < Len(m.targets) - 1 THEN [m EXCEPT !.cursor = @ + 1] ELSE m, <<>>)
    [] k = "enter" ->
         IF Len(m.targets) > 0
           THEN TC_startAsync([m EXCEPT !.output = <<>>], "Running",
                              streamLines(m.runnerName,
                                          [i \in 1..Len(m.targets) |-> m.targets[i].target]))
           ELSE Ret(m, <<>>)
    [] k = "r" -> TC_reload(m)
    [] OTHER -> Ret(m, <<>>)

TC_keyResults(m, k) ==
  CASE k = "ctrl+c" -> Ret(m, <<CmdQuit>>)
    [] k \in {"q", "esc"} -> Ret(m, <<CmdBack>>)
    [] k = "r" -> TC_reload([m EXCEPT !.output = <<>>])
    [] OTHER -> Ret(m, <<>>)

TC_handleKey(m, k) ==
  CASE m.state = "Browse" -> TC_keyBrowse(m, k)
    [] m.state = "Running" -> IF k = "ctrl+c" THEN Ret(m, <<CmdQuit>>) ELSE Ret(m, <<>>)
    [] m.state = "Results" -> TC_keyResults(m, k)
    [] OTHER -> Ret(m, <<>>)

TC_onWindowSize(m, msg) ==
  Ret([m EXCEPT !.vpWidth = msg.Width - 6, !.vpHeight = msg.Height - 4 - 6], <<>>)

TC_onTargetsLoaded(m, msg) ==
  IF msg.err # NoErr
    THEN Ret(TC_showError(m, msg.err), <<>>)
    ELSE Ret([m EXCEPT !.state = "Browse", !.runnerName = msg.runner,
                       !.targets = [i \in 1..Len(msg.targets) |->
                                      [runner |-> msg.runner, target |-> msg.targets[i]]]],
             <<>>)

TC_onTestBatch(m, msg) ==
  Ret([m EXCEPT !.output = @ \o msg.lines, !.state = "Results",
                !.exitCode = IF msg.err # NoErr THEN 1 ELSE 0], <<>>)

TC_onOther(m, msg) ==
  IF m.state = "Results" THEN Ret(m, <<>>)
  ELSE IF m.state \in {"Loading", "Running"} THEN Ret(m, TimerUpdate(msg))
  ELSE Ret(m, <<>>)

TC_Dispatch(m, msg) ==
  CASE msg.type = "WindowSizeMsg" -> TC_onWindowSize(m, msg)
    [] msg.type = "targetsLoadedMsg" -> TC_onTargetsLoaded(m, msg)
    [] msg.type = "testBatchMsg" -> TC_onTestBatch(m, msg)
    [] msg.type = "KeyMsg" -> TC_handleKey(m, msg.key)
    [] OTHER -> TC_onOther(m, msg)

TC_Update(m, msg) ==
  IF m.errSplash # "" /\ msg.type = "KeyMsg"
    THEN Ret([m EXCEPT !.errSplash = ""], <<>>)
    ELSE TC_Dispatch(m, msg)

\* -------------------------------------------------------------- updater
\* byte order of the characters that occur in version strings
CharOrder == <<".", "0", "1", "2", "3", "4", "5", "6", "7", "8", "9", "d", "e", "v">>
Ord(c) == CHOOSE i \in 1..Len(CharOrder) : CharOrder[i] = c

\* Go's string comparison a > b
RECURSIVE StrGreater(_, _)
StrGreater(a, b) ==
  IF a = <<>> THEN FALSE
  ELSE IF b = <<>> THEN TRUE
  ELSE IF Head(a) # Head(b) THEN Ord(Head(a)) > Ord(Head(b))
  ELSE StrGreater(Tail(a), Tail(b))

\* strings.Split(v, ".")
RECURSIVE SplitDots(_, _, _)
SplitDots(v, i, cur) ==
  IF i > Len(v) THEN <<cur>>
  ELSE IF v[i] = "." THEN <<cur>> \o SplitDots(v, i + 1, <<>>)
  ELSE SplitDots(v, i + 1, Append(cur, v[i]))

\* fmt.Sprintf("%04s", p): left-pad with zeros to width 4, never truncate
RECURSIVE Pad4(_)
Pad4(p) == IF Len(p) >= 4 THEN p ELSE Pad4(<<"0">> \o p)

RECURSIVE JoinDots(_)
JoinDots(parts) ==
  IF Len(parts) = 1 THEN parts[1]
  ELSE parts[1] \o <<".">> \o JoinDots(Tail(parts))

normalizeVersion(v0) ==
  LET v == IF v0 # <<>> /\ Head(v0) = "v" THEN Tail(v0) ELSE v0
      parts == SplitDots(v, 1, <<>>)
  IN JoinDots([i \in 1..Len(parts) |-> Pad4(parts[i])])

Dev == <<"d", "e", "v">>

IsNewer(current, latest) ==
  IF current = Dev THEN FALSE
  ELSE StrGreater(normalizeVersion(latest), normalizeVersion(current))

\* ------------------------------------------------------------- registry
\* registry.tools after the init() registrations of the two tool packages
RegistryTools == <<"git-branch", "test-changed">>

\* variant: every ID is taken as registered
RegistryGet_Any(id) == TRUE

RegistryGet(id) == \E i \in 1..Len(RegistryTools) : RegistryTools[i] = id

RegistryNew(id) == IF id = "git-branch" THEN GB_New ELSE TC_New

\* ----------------------------------------------------------- home screen
checkForUpdate(version) == [kind |-> "checkForUpdate", version |-> version]
runUpdate(tag) == [kind |-> "runUpdate", tag |-> tag]
CmdToolSelected(id) == [kind |-> "ToolSelectedMsg", ID |-> id]

Home_New(version) ==
  [type |-> "home", cursor |-> 0, version |-> version, updateTag |-> <<>>,
   updating |-> FALSE, updated |-> FALSE, updateErr |-> "",
   width |-> 0, height |-> 0]

\* variant: the home screen starts no update check
Home_Init_None(m) == <<>>

Home_Init(m) == IF m.version = Dev THEN <<>> ELSE <<checkForUpdate(m.version)>>

\* variant: down on the last tool wraps to the first
Home_down_Wraps(m) ==
  [m EXCEPT !.cursor = (@ + 1) % Len(RegistryTools)]

\* the cursor after the down key
Home_down(m) ==
  IF m.cursor < Len(RegistryTools) - 1 THEN [m EXCEPT !.cursor = @ + 1] ELSE m

Home_handleKey(m, k) ==
  IF k = "u" /\ m.updateTag # <<>> /\ ~m.updating /\ ~m.updated
    THEN Ret([m EXCEPT !.updating = TRUE, !.updateErr = ""], <<runUpdate(m.updateTag)>>)
  ELSE CASE k \in {"q", "esc"} -> Ret(m, <<CmdQuit>>)
         [] k \in {"up", "k"} ->
              Ret(IF m.cursor > 0 THEN [m EXCEPT !.cursor = @ - 1] ELSE m, <<>>)
         [] k \in {"down", "j"} -> Ret(Home_down(m), <<>>)
         [] k \in {"enter", " "} ->
              IF m.cursor < Len(RegistryTools)
                THEN Ret(m, <<CmdToolSelected(RegistryTools[m.cursor + 1])>>)
                ELSE Ret(m, <<>>)
         [] OTHER -> Ret(m, <<>>)

Home_Update(m, msg) ==
  CASE msg.type = "WindowSizeMsg" ->
         Ret([m EXCEPT !.width = msg.Width, !.height = msg.Height], <<>>)
    [] msg.type = "UpdateAvailableMsg" -> Ret([m EXCEPT !.updateTag = msg.Tag], <<>>)
    [] msg.type = "UpdateFinishedMsg" ->
         Ret(IF msg.Err # NoErr
               THEN [m EXCEPT !.updating = FALSE, !.updateErr = msg.Err]
               ELSE [m EXCEPT !.updating = FALSE, !.updated = TRUE], <<>>)
    [] msg.type = "KeyMsg" -> Home_handleKey(m, msg.key)
    [] OTHER -> Ret(m, <<>>)

\* ------------------------------------------------ app shell and adapter
\* the Update method of whichever model the tea.Model interface holds
Child_Update(c, msg) ==
  CASE c.type = "gitbranch" -> GB_Update(c, msg)
    [] c.type = "testchanged" -> TC_Update(c, msg)
    [] c.type = "home" -> Home_Update(c, msg)

Child_Init(c) ==
  CASE c.type = "gitbranch" -> GB_Init(c)
    [] c.type = "testchanged" -> TC_Init(c)
    [] c.type = "home" -> Home_Init(c)

ZeroSize == [Width |-> 0, Height |-> 0]
CmdWindowSize(ws) == [kind |-> "windowSize", size |-> ws]

App_New(version) ==
  [type |-> "app", current |-> Home_New(version), version |-> version,
   windowSize |-> ZeroSize]

App_Init(m) == Child_Init(m.current)

\* variant: the new child is stored and its Init is not run
App_switch_NoInit(m, child) ==
  Ret([m EXCEPT !.current = child], <<CmdWindowSize(m.windowSize)>>)

App_switch(m, child) ==
  Ret([m EXCEPT !.current = child], Child_Init(child) \o <<CmdWindowSize(m.windowSize)>>)

\* the child's replacement is stored and its command returned
App_store(m, r) ==
  [m |-> [m EXCEPT !.current = r.m], cmd |-> r.cmd, panic |-> r.panic]

App_delegate(m, msg) == App_store(m, Child_Update(m.current, msg))

App_onWindowSize(m, msg) ==
  IF msg.type = "WindowSizeMsg"
    THEN [m EXCEPT !.windowSize = [Width |-> msg.Width, Height |-> msg.Height]]
    ELSE m

App_route(m, msg) ==
  IF msg.type = "KeyMsg" /\ msg.key = "ctrl+c" THEN Ret(m, <<CmdQuit>>)
  ELSE IF msg.type = "BackMsg" THEN App_switch(m, Home_New(m.version))
  ELSE IF msg.type = "ToolSelectedMsg" /\ RegistryGet(msg.ID)
    THEN App_switch(m, RegistryNew(msg.ID))
  ELSE App_delegate(m, msg)

App_Update(m, msg) == App_route(App_onWindowSize(m, msg), msg)

Standalone(inner) == [type |-> "standalone", inner |-> inner]

Standalone_Init(s) == Child_Init(s.inner)

\* variant: the tool's command is not returned
Standalone_wrap_CmdDropped(s, r) ==
  [m |-> [s EXCEPT !.inner = r.m], cmd |-> <<>>, panic |-> r.panic]

\* the tool's replacement is wrapped again and its command returned
Standalone_wrap(s, r) ==
  [m |-> [s EXCEPT !.inner = r.m], cmd |-> r.cmd, panic |-> r.panic]

\* variant: the interrupt key is passed on to the tool
Standalone_Update_InterruptPassedOn(s, msg) ==
  IF msg.type = "BackMsg" THEN Ret(s, <<CmdQuit>>)
  ELSE Standalone_wrap(s, Child_Update(s.inner, msg))

Standalone_Update(s, msg) ==
  IF msg.type = "KeyMsg" /\ msg.key = "ctrl+c" THEN Ret(s, <<CmdQuit>>)
  ELSE IF msg.type = "BackMsg" THEN Ret(s, <<CmdQuit>>)
  ELSE Standalone_wrap(s, Child_Update(s.inner, msg))

\* ------------------------------------------------------------- messages
NilMsg == [type |-> "nil"]
KeyMsg(k) == [type |-> "KeyMsg", key |-> k]
WindowSizeMsg(ws) == [type |-> "WindowSizeMsg", Width |-> ws.Width, Height |-> ws.Height]
branchesLoadedMsg(branches, err) ==
  [type |-> "branchesLoadedMsg", branches |-> branches, err |-> err]
renameResultMsg(localOk, remoteOk, err) ==
  [type |-> "renameResultMsg", localOk |-> localOk, remoteOk |-> remoteOk, err |-> err]
deleteResultMsg(err) == [type |-> "deleteResultMsg", err |-> err]
createResultMsg(err) == [type |-> "createResultMsg", err |-> err]
checkoutResultMsg(err) == [type |-> "checkoutResultMsg", err |-> err]
targetsLoadedMsg(runner, targets, err) ==
  [type |-> "targetsLoadedMsg", runner |-> runner, targets |-> targets, err |-> err]
testDoneMsg(err) == [type |-> "testDoneMsg", err |-> err]
testBatchMsg(lines, err) == [type |-> "testBatchMsg", lines |-> lines, err |-> err]

\* ------------------------------------------- the subprocesses (git.go)
\* A subprocess environment e gives the outcome of each process a command
\* starts, in order (e.ok[i]), and what a failing process wrote to stderr.
Stderrs == {"", "fatal"}
GitEnvs == [ok : [1..3 -> BOOLEAN], stderr : Stderrs]

getBranches(list, ok) ==
  IF ~ok THEN [branches |-> <<>>, err |-> "not a git repository or git not found"]
         ELSE [branches |-> list, err |-> NoErr]

renameBranch(e) ==
  IF ~e.ok[1] THEN "rename branch: " \o e.stderr ELSE NoErr

checkoutBranch(e) == IF ~e.ok[1] THEN e.stderr ELSE NoErr

deleteBranch(e) == IF ~e.ok[1] THEN "delete branch: " \o e.stderr ELSE NoErr

createBranch(e) == IF ~e.ok[1] THEN "create branch: " \o e.stderr ELSE NoErr

\* the push and the remote delete are the second and third process
renameRemoteBranch(e) ==
  IF ~e.ok[2] THEN "push new branch: " \o e.stderr
  ELSE IF ~e.ok[3] THEN "delete old remote branch: " \o e.stderr
  ELSE NoErr

\* variant: the old remote branch is deleted before the new one is pushed
renameRemoteSteps_DeleteFirst(remoteName, oldBranch, newBranch, e) ==
  <<[op |-> "delete", remote |-> remoteName, ref |-> oldBranch, ok |-> e.ok[2]]>>
  \o (IF e.ok[2]
        THEN <<[op |-> "push", remote |-> remoteName, ref |-> newBranch, ok |-> e.ok[3]]>>
        ELSE <<>>)

\* the processes renameRemoteBranch runs, in order, each with its outcome
renameRemoteSteps(remoteName, oldBranch, newBranch, e) ==
  <<[op |-> "push", remote |-> remoteName, ref |-> newBranch, ok |-> e.ok[2]]>>
  \o (IF e.ok[2]
        THEN <<[op |-> "delete", remote |-> remoteName, ref |-> oldBranch, ok |-> e.ok[3]]>>
        ELSE <<>>)

\* the processes the rename-with-remote command runs, in order
RenameAllSteps(c, e) ==
  <<[op |-> "rename", remote |-> <<>>, ref |-> c.newName, ok |-> e.ok[1]]>>
  \o (IF e.ok[1]
        THEN renameRemoteSteps(splitUpstream(c.upstream).remote,
                               splitUpstream(c.upstream).branch, c.newName, e)
        ELSE <<>>)

\* the branches of the remote after the first n processes of steps: a push
\* that succeeds creates its ref, a delete that succeeds removes it
RECURSIVE RemoteAfter(_, _, _)
RemoteAfter(refs, steps, n) ==
  IF n = 0 THEN refs
  ELSE LET before == RemoteAfter(refs, steps, n - 1)
           st == steps[n]
       IN IF ~st.ok THEN before
          ELSE IF st.op = "push" THEN before \cup {st.ref}
          ELSE IF st.op = "delete" THEN before \ {st.ref}
          ELSE before

\* the message each git-branch command returns
fetchBranches(list, ok) ==
  LET r == getBranches(list, ok) IN branchesLoadedMsg(r.branches, r.err)

RunCheckout(c, e) == checkoutResultMsg(checkoutBranch(e))

RunRenameLocal(c, e) ==
  LET err == renameBranch(e) IN renameResultMsg(err = NoErr, FALSE, err)

RunRenameAll(c, e) ==
  LET err1 == renameBranch(e) IN
  IF err1 # NoErr THEN renameResultMsg(FALSE, FALSE, err1)
  ELSE LET err == renameRemoteBranch(e) IN renameResultMsg(TRUE, err = NoErr, err)

RunDelete(c, e) == deleteResultMsg(deleteBranch(e))

RunCreate(c, e) == createResultMsg(createBranch(e))

RunGitOp(c, e) ==
  CASE c.kind = "cmdCheckout" -> RunCheckout(c, e)
    [] c.kind = "cmdRenameLocal" -> RunRenameLocal(c, e)
    [] c.kind = "cmdRenameAll" -> RunRenameAll(c, e)
    [] c.kind = "cmdDelete" -> RunDelete(c, e)
    [] c.kind = "cmdCreate" -> RunCreate(c, e)

GitOpKinds == {"cmdCheckout", "cmdRenameLocal", "cmdRenameAll", "cmdDelete", "cmdCreate"}

\* ------------------------------------ the test runners (test-changed)
RunnerNames == {"go", "bazel"}
TargetNames == <<"./a/...", "./b/...">>
TargetLists == { [i \in 1..n |-> TargetNames[i]] : n \in 1..MaxTargets }

\* e.step: the git step that fails (0: none); e.runner: the first runner
\* that finds targets ("" when none does)
LoadEnvs == [step : 0..3, runner : RunnerNames \cup {""}, targets : TargetLists]

loadTargets(e) ==
  CASE e.step = 1 -> targetsLoadedMsg("", <<>>, "detect default branch: E")
    [] e.step = 2 -> targetsLoadedMsg("", <<>>, "merge base: E")
    [] e.step = 3 -> targetsLoadedMsg("", <<>>, "changed files: E")
    [] OTHER -> IF e.runner = "" THEN targetsLoadedMsg("", <<>>, NoErr)
                ELSE targetsLoadedMsg(e.runner, e.targets, NoErr)

\* e.fail: "" or the step that fails before the process runs;
\* e.exitOk: the exit status of the test process
StreamEnvs == [fail : {"", "stdout pipe", "stderr pipe", "start"},
               exitOk : BOOLEAN, lines : {<<>>, <<"ok">>}]

RunStreamLines(c, e) ==
  IF c.runner \notin RunnerNames THEN testDoneMsg("runner not found")
  ELSE IF e.fail # "" THEN testDoneMsg(e.fail)
  ELSE testBatchMsg(e.lines, IF e.exitOk THEN NoErr ELSE "exit status 1")

\* ----------------------------------------------- the updater commands
V13 == <<"1", ".", "3">>
V110 == <<"1", ".", "1", "0">>
Versions == {Dev, V13}
\* what LatestRelease returns: a tag, or <<>> with an error
LatestReleases == {V13, V110, <<>>}

RunCheckForUpdate(c, latest) ==
  IF latest = <<>> \/ ~IsNewer(c.version, latest)
    THEN NilMsg
    ELSE [type |-> "UpdateAvailableMsg", Tag |-> latest]

RunRunUpdate(c, err) == [type |-> "UpdateFinishedMsg", Err |-> err]

\* ------------------------------------------------------------- runtime
VARIABLES
  model,    \* the program's top-level tea.Model (app shell or adapter)
  pending,  \* bag of the commands issued and not yet completed
  status,   \* "running", "quit" or "panic"
  sized     \* the terminal has reported its size

vars == <<model, pending, status, sized>>

NoCmd == [kind |-> "none"]

Top_Update(m, msg) ==
  IF m.type = "app" THEN App_Update(m, msg) ELSE Standalone_Update(m, msg)

Top_Init(m) ==
  IF m.type = "app" THEN App_Init(m) ELSE Standalone_Init(m)

\* the process has exited: its memory and its running commands are gone
Exited == [type |-> "exited"]

\* the screen the user sees: the shell's current child or the wrapped tool
ChildOf(m) == IF m.type = "app" THEN m.current ELSE m.inner
Tool == IF status = "running" THEN ChildOf(model) ELSE Exited

TimerKinds == {"spinner.Tick", "stopwatch.Reset", "stopwatch.Start"}

\* tea.Batch: every command of the batch runs.  The timer commands of the
\* spinner and the stopwatch are not tracked (a timer message can arrive at
\* any time, see TimerFires) and neither is tea.Quit, which ends the loop.
AddCmd(bag, c) ==
  IF c.kind \in TimerKinds \/ c = CmdQuit THEN bag ELSE bag (+) SetToBag({c})

RECURSIVE AddAll(_, _)
AddAll(bag, cmds) ==
  IF cmds = <<>> THEN bag ELSE AddAll(AddCmd(bag, Head(cmds)), Tail(cmds))

OpCount(bag) == BagCardinality(bag)

Remove(bag, c) == IF c = NoCmd THEN bag ELSE bag (-) SetToBag({c})

HasCmd(cmds, c) == \E i \in 1..Len(cmds) : cmds[i] = c

\* what one turn of the event loop makes of the state: msg is handed to
\* Update and the returned commands are started; run is the command whose
\* completion produced msg.  tea.Quit among the returned commands ends the
\* loop, an index out of range ends it with a panic.
Started(r, p, run) ==
  [model |-> r.m,
   pending |-> AddAll(Remove(p, run), r.cmd),
   cmd |-> r.cmd,
   status |-> IF r.panic THEN "panic"
              ELSE IF HasCmd(r.cmd, CmdQuit) THEN "quit"
              ELSE "running"]

Turn(m, p, msg, run) == Started(Top_Update(m, msg), p, run)

Running(kinds) == { c \in BagToSet(pending) : c.kind \in kinds }

\* the messages a running command can return, over all outcomes of its
\* subprocesses or requests
FetchResults ==
  {fetchBranches(list, TRUE) : list \in BranchLists} \cup {fetchBranches(<<>>, FALSE)}
GitOpResults(c) == {RunGitOp(c, e) : e \in GitEnvs}
LoadTargetsResults == {loadTargets(e) : e \in LoadEnvs}
StreamLinesResults(c) == {RunStreamLines(c, e) : e \in StreamEnvs}
UpdateCheckResults(c) == {RunCheckForUpdate(c, latest) : latest \in LatestReleases}
UpdateResults(c) == {RunRunUpdate(c, err) : err \in {NoErr, "downloading release: E"}}

Results(c) ==
  CASE c.kind = "fetchBranches" -> FetchResults
    [] c.kind \in GitOpKinds -> GitOpResults(c)
    [] c.kind = "loadTargets" -> LoadTargetsResults
    [] c.kind = "streamLines" -> StreamLinesResults(c)
    [] c.kind = "checkForUpdate" -> UpdateCheckResults(c)
    [] c.kind = "runUpdate" -> UpdateResults(c)
    [] c.kind = "BackMsg" -> {[type |-> "BackMsg"]}
    [] c.kind = "ToolSelectedMsg" -> {[type |-> "ToolSelectedMsg", ID |-> c.ID]}
    [] c.kind = "windowSize" -> {WindowSizeMsg(c.size)}
    [] c.kind = "tea.Quit" -> {[type |-> "QuitMsg"]}
    [] c.kind = "tick" -> {[type |-> "tickMsg"]}
    [] OTHER -> {[type |-> "TickMsg"]}

\* the keys the user presses on a list screen; "a" stands for the unbound keys
ListKeys == {"up", "down", "enter", " ", "esc", "e", "c", "d", "r", "u", "a", "ctrl+c"}
\* the keys the user presses while the text input has the focus
TypingKeys == {"esc", "enter", "a", "b", " ", "backspace", "ctrl+c"}
\* the keys the user presses on the remote-rename prompt
PromptKeys == {"left", "right", "y", "n", "enter", " ", "esc", "a", "ctrl+c"}
\* the keys the user presses in a tool reached through the home screen
AppToolKeys == {"up", "down", "enter", "esc", "d", "r", "a", "ctrl+c"}

Keys == ListKeys \cup TypingKeys \cup PromptKeys

UnderApp == model.type = "app"

\* the keys the user can press on the screen shown
KeysNow ==
  IF UnderApp /\ Tool.type # "home" THEN AppToolKeys
  ELSE IF Tool.type = "gitbranch" /\ Tool.state \in {"Edit", "Create"} THEN TypingKeys
  ELSE IF Tool.type = "gitbranch" /\ Tool.state = "ConfirmRemote" THEN PromptKeys
  ELSE ListKeys

\* the cap on the commands in flight: under the app shell the commands of
\* discarded screens stay in flight
Cap == IF UnderApp THEN MaxStale ELSE MaxPending

Size1 == [Width |-> 80, Height |-> 24]

\* `rig gb` and `rig tc` start a tool wrapped in the standalone adapter,
\* `rig` starts the app shell on the home screen
Launches ==
  {Standalone(GB_New), Standalone(TC_New)} \cup {App_New(v) : v \in Versions}

Init ==
  /\ model \in Launches
  /\ pending = AddAll(EmptyBag, Top_Init(model))
  /\ status = "running"
  /\ sized = FALSE

\* one step of the program: msg is handled and the returned commands start
Step(msg, run) ==
  /\ status = "running"
  /\ \E t \in {Turn(model, pending, msg, run)} :
       /\ OpCount(t.pending) <= Cap
       /\ status' = t.status
       /\ IF t.status = "running"
            THEN model' = t.model /\ pending' = t.pending
            ELSE model' = Exited /\ pending' = EmptyBag
  /\ sized' = (sized \/ (msg.type = "WindowSizeMsg" /\ run = NoCmd))

\* a command that returns the nil message: the loop drops it
Drop(run) ==
  /\ status = "running"
  /\ pending' = Remove(pending, run)
  /\ UNCHANGED <<model, status, sized>>

\* the command c completes with one of its results
Done(c) == \E msg \in Results(c) : IF msg = NilMsg THEN Drop(c) ELSE Step(msg, c)

\* the terminal reports its size when the program starts, before the user
\* can press a key; a later report of the same size changes nothing
Resize ==
  /\ status = "running"
  /\ Step(WindowSizeMsg(Size1), NoCmd)

KeyPress ==
  /\ sized
  /\ \E k \in KeysNow : Step(KeyMsg(k), NoCmd)

\* a message of the spinner's or the stopwatch's timer
TimerFires ==
  /\ status = "running"
  /\ Step([type |-> "TickMsg"], NoCmd)

FetchDone == \E c \in Running({"fetchBranches"}) : Done(c)

GitOpDone == \E c \in Running(GitOpKinds) : Done(c)

LoadTargetsDone == \E c \in Running({"loadTargets"}) : Done(c)

StreamLinesDone == \E c \in Running({"streamLines"}) : Done(c)

UpdateCheckDone == \E c \in Running({"checkForUpdate"}) : Done(c)

UpdateDone == \E c \in Running({"runUpdate"}) : Done(c)

BackDelivered == \E c \in Running({"BackMsg"}) : Done(c)

ToolSelectedDelivered == \E c \in Running({"ToolSelectedMsg"}) : Done(c)

SizeReplayed == \E c \in Running({"windowSize"}) : Done(c)

Next ==
  \/ KeyPress
  \/ Resize
  \/ TimerFires
  \/ FetchDone
  \/ GitOpDone
  \/ LoadTargetsDone
  \/ StreamLinesDone
  \/ UpdateCheckDone
  \/ UpdateDone
  \/ BackDelivered
  \/ ToolSelectedDelivered
  \/ SizeReplayed

Spec == Init /\ [][Next]_vars

\* ------------------------------------------------------------ properties
InGB == Tool.type = "gitbranch"
InTC == Tool.type = "testchanged"
Waiting == {"Loading", "Processing"}
GitKinds == GitOpKinds \cup {"fetchBranches"}

HasKind(cmds, kind) == \E i \in 1..Len(cmds) : cmds[i].kind = kind

\* the key handler of the tool shown
Child_handleKey(c, k) ==
  IF c.type = "gitbranch" THEN GB_handleKey(c, k) ELSE TC_handleKey(c, k)

\* the cursor is on a branch that is not checked out
OnOtherBranch(m) ==
  /\ Len(m.branches) > 0
  /\ InRange(m)
  /\ ~m.branches[m.cursor + 1].IsCurrent

\* Browse with no splash: a key reaches the Browse handler
Browsing(m) == m.state = "Browse" /\ m.errSplash = ""

\* C1: in git-branch the cursor is within [0, len(branches)-1] when the
\* branch list is non-empty and is 0 when the list is empty, in every
\* reachable state; up at 0 and down at the last index leave it unchanged.
C1_CursorInList ==
  InGB =>
    /\ IF Len(Tool.branches) = 0
         THEN Tool.cursor = 0
         ELSE Tool.cursor >= 0 /\ Tool.cursor <= Len(Tool.branches) - 1
    /\ (Browsing(Tool) /\ Tool.cursor = 0)
         => GB_Update(Tool, KeyMsg("up")).m.cursor = Tool.cursor
    /\ (Browsing(Tool) /\ Tool.cursor = Len(Tool.branches) - 1)
         => GB_Update(Tool, KeyMsg("down")).m.cursor = Tool.cursor

\* C2: in git-branch and test-changed, while the error splash is non-empty
\* a key of any kind clears the splash, issues no command, changes nothing
\* else and does not reach the key handler; the key after it is handled by
\* the key handler of the current view-state.
C2_SplashAbsorbsOneKey ==
  ((InGB \/ InTC) /\ Tool.errSplash # "") =>
    \E cleared \in {[Tool EXCEPT !.errSplash = ""]} :
      /\ \A k \in Keys : Child_Update(Tool, KeyMsg(k)) = Ret(cleared, <<>>)
      /\ \A k2 \in Keys : Child_Update(cleared, KeyMsg(k2)) = Child_handleKey(cleared, k2)

\* the splash of test-changed is showing on top of a target list
C2_Witness ==
  /\ InTC
  /\ Tool.errSplash # ""
  /\ Tool.state = "Browse"

\* the second press of d: staging is active for the index under the cursor
SecondPress(m, k) ==
  /\ k = "d"
  /\ Browsing(m)
  /\ OnOtherBranch(m)
  /\ m.deleteStaged
  /\ m.deleteStagedIdx = m.cursor

\* a press of d that is not the second one on the same index
FirstPress(m, k) ==
  /\ k = "d"
  /\ Browsing(m)
  /\ OnOtherBranch(m)
  /\ ~(m.deleteStaged /\ m.deleteStagedIdx = m.cursor)

\* C3: git-branch issues a delete command exactly on the second of two d
\* presses on the same non-current index I in Browse: the tool moves to
\* Processing, the staging flag is cleared and the command deletes the
\* branch at I; a first press stages I and issues no command; no result
\* of a running command issues a delete.
C3_DeleteOnSecondPress ==
  InGB =>
    /\ \A k \in Keys :
         \E r \in {GB_Update(Tool, KeyMsg(k))} :
           /\ HasKind(r.cmd, "cmdDelete") <=> SecondPress(Tool, k)
           /\ SecondPress(Tool, k) =>
                /\ r.m.state = "Processing"
                /\ ~r.m.deleteStaged
                /\ r.cmd[1] = cmdDelete(Tool.branches[Tool.cursor + 1].Name)
           /\ FirstPress(Tool, k) =>
                /\ r.cmd = <<>>
                /\ r.m.state = "Browse"
                /\ r.m.deleteStaged
                /\ r.m.deleteStagedIdx = Tool.cursor
    /\ \A c \in Running(GitKinds) : \A msg \in Results(c) :
         ~HasKind(GB_Update(Tool, msg).cmd, "cmdDelete")

\* the delete of a branch is running after the second press
C3_Witness ==
  /\ InGB
  /\ Tool.state = "Processing"
  /\ \E c \in BagToSet(pending) : c.kind = "cmdDelete" /\ c.name = Tool.editing.Name

\* staging is active for another index than the one under the cursor
StagedElsewhere(m) ==
  /\ Browsing(m)
  /\ OnOtherBranch(m)
  /\ m.deleteStaged
  /\ m.deleteStagedIdx # m.cursor

\* C4: in git-branch Browse, with staging active for index I, d pressed
\* with the cursor on another non-current index J keeps the tool in Browse,
\* issues no command and makes J, not I, the staged index.
C4_RestageOnOtherIndex ==
  (InGB /\ StagedElsewhere(Tool)) =>
    \E r \in {GB_Update(Tool, KeyMsg("d"))} :
      /\ r.m.state = "Browse"
      /\ r.cmd = <<>>
      /\ r.m.deleteStaged
      /\ r.m.deleteStagedIdx = Tool.cursor
      /\ r.m.deleteStagedIdx # Tool.deleteStagedIdx

\* a branch list that arrived after the first press moved the cursor off
\* the staged index
C4_Witness ==
  /\ InGB
  /\ StagedElsewhere(Tool)
  /\ Tool.deleteStagedIdx >= Len(Tool.branches)

\* C5: in git-branch Browse, after any key other than d the staging flag
\* is false, whatever else the key does, so that a single d after it
\* issues no delete command.
C5_OtherKeyClearsStaging ==
  (InGB /\ Tool.state = "Browse") =>
    \A k \in Keys \ {"d"} :
      \E r \in {GB_Update(Tool, KeyMsg(k))} :
        /\ ~r.m.deleteStaged
        /\ ~HasKind(GB_Update(r.m, KeyMsg("d")).cmd, "cmdDelete")

\* the cursor is on the checked-out branch
OnCurrentBranch(m) ==
  /\ Len(m.branches) > 0
  /\ InRange(m)
  /\ m.branches[m.cursor + 1].IsCurrent

\* the command is a checkout or a delete of a branch the list marks current
TouchesCurrent(m, c) ==
  /\ c.kind \in {"cmdCheckout", "cmdDelete"}
  /\ \E i \in 1..Len(m.branches) : m.branches[i].IsCurrent /\ m.branches[i].Name = c.name

\* the key made index i the staged one
Stages(m, r, i) ==
  /\ r.m.deleteStaged
  /\ r.m.deleteStagedIdx = i
  /\ ~(m.deleteStaged /\ m.deleteStagedIdx = i)

C7_LateResultIgnored ==
  (InGB /\ Tool.state \notin Waiting) =>
    \A c \in Running(GitKinds) : \A msg \in Results(c) :
      \E r \in {GB_Update(Tool, msg)} :
        /\ r.cmd = <<>>
        /\ r.m.state = Tool.state
        /\ r.m.branches = Tool.branches
        /\ r.m.cursor = Tool.cursor
        /\ r.m.result = Tool.result
        /\ r.m.errSplash = Tool.errSplash

\* C8: every command the home screen, the app shell and the tools have
\* issued delivers exactly one message when it completes, for every outcome
\* of its subprocess or request, never none.
C8_OneMessagePerCommand ==
  \A c \in BagToSet(pending) : \A msg \in Results(c) : msg # NilMsg

\* the result reports an error and no success
IsFailure(msg) ==
  /\ msg.err # NoErr
  /\ msg.type = "renameResultMsg" => ~msg.localOk

C10_PartialRenameToResult ==
  InGB =>
    \A c \in Running({"cmdRenameLocal", "cmdRenameAll"}) : \A msg \in Results(c) :
      \E r \in {GB_Update(Tool, msg)} :
        /\ (msg.err # NoErr /\ msg.localOk) =>
             /\ r.m.state = "Result"
             /\ r.m.result # <<>>
             /\ r.m.errSplash = ""
             /\ r.cmd = <<>>
        /\ (msg.err # NoErr /\ ~msg.localOk) =>
             /\ r.m.state = "Browse"
             /\ r.m.errSplash = msg.err
        /\ (r.m.state = "Browse" \/ r.m.errSplash # "") =>
             (msg.err # NoErr /\ ~msg.localOk)

\* the result screen reports the rename and the failed remote update
C10_Witness ==
  /\ InGB
  /\ Tool.state = "Result"
  /\ Tool.result = <<"Renamed", "RemoteUpdateFailed">>
  /\ Tool.errSplash = ""

\* C11: in test-changed, every result of a running test command that
\* reports a failure (runner not found, pipe or start failure, non-zero
\* exit) moves the tool to Browse with the error splash set, the next key
\* clears the splash, and the program keeps running.
C11_RunnerFailureToSplash ==
  InTC =>
    \A c \in Running({"streamLines"}) : \A msg \in Results(c) :
      msg.err # NoErr =>
        \E t \in {Turn(model, pending, msg, c)} :
          /\ t.status = "running"
          /\ ChildOf(t.model).state = "Browse"
          /\ ChildOf(t.model).errSplash # ""
          /\ \A k \in Keys :
               TC_Update(ChildOf(t.model), KeyMsg(k)).m.errSplash = ""

Spaces(n) == [i \in 1..n |-> " "]
Stripped(s) ==
  CHOOSE t \in {SubSeq(s, i, j) : i \in 1..(Len(s) + 1), j \in 0..Len(s)} :
    /\ t = <<>> \/ (t[1] # " " /\ t[Len(t)] # " ")
    /\ \E a \in 0..Len(s), b \in 0..Len(s) : s = Spaces(a) \o t \o Spaces(b)

\* the key issues a rename command
IssuesRename(r) == HasKind(r.cmd, "cmdRenameLocal") \/ HasKind(r.cmd, "cmdRenameAll")

\* the text of the input is a new name for the branch being renamed
ChangedName(m) ==
  /\ Stripped(m.input) # <<>>
  /\ Stripped(m.input) # m.editing.Name

\* C13: in git-branch Edit, enter with a changed, non-empty name goes to
\* Processing with a local rename when the edited branch tracks no remote,
\* and to ConfirmRemote with no command when it tracks one; a key issues a
\* rename for a branch that tracks a remote only in ConfirmRemote, and a
\* rename of the remote is issued only there.
C13_RenameAsksForRemote ==
  InGB =>
    /\ (Tool.state = "Edit" /\ Tool.errSplash = "" /\ ChangedName(Tool)) =>
         \E r \in {GB_Update(Tool, KeyMsg("enter"))} :
           IF Tool.editing.HasRemote
             THEN r.m.state = "ConfirmRemote" /\ r.cmd = <<>>
             ELSE /\ r.m.state = "Processing"
                  /\ HasCmd(r.cmd, cmdRenameLocal(Tool, Stripped(Tool.input)))
                  /\ ~HasKind(r.cmd, "cmdRenameAll")
    /\ \A k \in Keys :
         \E r \in {GB_Update(Tool, KeyMsg(k))} :
           /\ (IssuesRename(r) /\ Tool.editing.HasRemote) => Tool.state = "ConfirmRemote"
           /\ HasKind(r.cmd, "cmdRenameAll") => Tool.state = "ConfirmRemote"
           /\ (r.m.state = "ConfirmRemote" /\ Tool.state # "ConfirmRemote")
                => (Tool.state = "Edit" /\ k = "enter")

\* the prompt about the remote is showing for a changed name
C13_Witness ==
  /\ InGB
  /\ Tool.state = "ConfirmRemote"
  /\ Tool.editing.HasRemote
  /\ ChangedName(Tool)

\* the trimmed text of the input names a branch of the loaded list
NameTaken(m) == GB_branchExists(m, Stripped(m.input))

\* C14: in git-branch Create, enter with a name that after trimming equals
\* the name of a branch of the loaded list leaves the tool in Create,
\* unchanged, and issues no command; a key issues a create only when it is
\* enter in Create with a trimmed name that is non-empty and not in the
\* list, and the create is for the trimmed name.
C14_CreateBlockedOnExisting ==
  InGB =>
    /\ (Tool.state = "Create" /\ Tool.errSplash = "" /\ NameTaken(Tool)) =>
         GB_Update(Tool, KeyMsg("enter")) = Ret(Tool, <<>>)
    /\ \A k \in Keys :
         \E r \in {GB_Update(Tool, KeyMsg(k))} :
           HasKind(r.cmd, "cmdCreate") =>
             /\ Tool.state = "Create"
             /\ k = "enter"
             /\ Stripped(Tool.input) # <<>>
             /\ ~NameTaken(Tool)
             /\ HasCmd(r.cmd, cmdCreate(Stripped(Tool.input)))
             /\ r.m.state = "Processing"

\* the typed name differs from an existing branch by surrounding space only
C14_Witness ==
  /\ InGB
  /\ Tool.state = "Create"
  /\ Tool.errSplash = ""
  /\ Tool.input # Stripped(Tool.input)
  /\ NameTaken(Tool)

\* C15: in git-branch Edit, enter with a name that after trimming is the
\* name of the branch being renamed returns to Browse, issues no command
\* and changes nothing else (branch list and cursor included); esc does the
\* same for any text.
C15_SameNameCancels ==
  (InGB /\ Tool.state = "Edit" /\ Tool.errSplash = "") =>
    \E back \in {Ret([Tool EXCEPT !.state = "Browse"], <<>>)} :
      /\ back.m.branches = Tool.branches
      /\ back.m.cursor = Tool.cursor
      /\ GB_Update(Tool, KeyMsg("esc")) = back
      /\ Stripped(Tool.input) = Tool.editing.Name =>
           GB_Update(Tool, KeyMsg("enter")) = back

\* back in the list after a rename whose text was the old name and a space
C15_Witness ==
  /\ InGB
  /\ Tool.state = "Browse"
  /\ Tool.editing.Name # <<>>
  /\ Tool.input # Tool.editing.Name
  /\ Stripped(Tool.input) = Tool.editing.Name
  /\ Tool.branches[Tool.cursor + 1] = Tool.editing
  /\ pending = EmptyBag

\* C16: in git-branch Edit and Create, enter with a name that is empty after
\* trimming leaves the view-state as it was and issues no command.
C16_EmptyNameRejected ==
  (InGB /\ Tool.state \in {"Edit", "Create"} /\ Tool.errSplash = ""
        /\ Stripped(Tool.input) = <<>>) =>
    \E r \in {GB_Update(Tool, KeyMsg("enter"))} :
      /\ r.m.state = Tool.state
      /\ r.cmd = <<>>

\* the result screen is showing and keys reach its handler
ShowingResult(m) == m.state = "Result" /\ m.errSplash = ""

\* C17: in git-branch Result, every key other than q and esc moves the tool
\* to Loading with the cursor at 0 and issues a branch fetch, and q and esc
\* issue navigate-back without a fetch and stay in Result; no timer message
\* and no successful result of a running command enters Browse from Result,
\* so Browse is re-entered only after a fetch issued from Result.
C17_ResultThenReload ==
  (InGB /\ ShowingResult(Tool)) =>
    /\ \A k \in Keys \ {"q", "esc"} :
         \E r \in {GB_Update(Tool, KeyMsg(k))} :
           /\ r.m.state = "Loading"
           /\ r.m.cursor = 0
           /\ HasCmd(r.cmd, CmdFetchBranches)
    /\ \A k \in {"q", "esc"} :
         \E r \in {GB_Update(Tool, KeyMsg(k))} :
           /\ r.m.state = "Result"
           /\ HasCmd(r.cmd, CmdBack)
           /\ ~HasCmd(r.cmd, CmdFetchBranches)
    /\ GB_Update(Tool, [type |-> "TickMsg"]).m.state = "Result"
    /\ \A c \in Running(GitKinds) : \A msg \in Results(c) :
         msg.err = NoErr => GB_Update(Tool, msg).m.state # "Browse"

\* the order of the processes of a rename with the remote
RenameOrder == <<"rename", "push", "delete">>

\* C18: for every running rename-with-remote command and every outcome of
\* its processes, the processes run in the order local rename, push of the
\* new branch, delete of the old remote branch; the delete runs only after a
\* push that succeeded, a failed local rename is followed by no process, and
\* between any two processes the remote holds the old or the new branch.
C18_PushBeforeDelete ==
  \A c \in Running({"cmdRenameAll"}) : \A e \in GitEnvs :
    \E steps \in {RenameAllSteps(c, e)} :
      \E old \in {splitUpstream(c.upstream).branch} :
        /\ Len(steps) <= 3
        /\ \A i \in 1..Len(steps) : steps[i].op = RenameOrder[i]
        /\ ~steps[1].ok => Len(steps) = 1
        /\ \A i \in 1..Len(steps) :
             steps[i].op = "delete" =>
               /\ steps[i].ref = old
               /\ \E j \in 1..(i - 1) :
                    steps[j].op = "push" /\ steps[j].ok /\ steps[j].ref = c.newName
        /\ \A n \in 0..(Len(steps) - 1) :
             RemoteAfter({old}, steps, n) \cap {old, c.newName} # {}

\* a rename with the remote is running for the branch being edited
C18_Witness ==
  /\ InGB
  /\ Tool.state = "Processing"
  /\ Tool.didRemote
  /\ \E c \in Running({"cmdRenameAll"}) :
       /\ c.oldName = Tool.editing.Name
       /\ c.upstream = Tool.editing.Upstream
       /\ c.newName # c.oldName

\* the message the home screen sends for the tool with this ID
ToolSelectedMsg(id) == [type |-> "ToolSelectedMsg", ID |-> id]

\* the model type of the tool registered under this ID
ToolType(id) == IF id = "git-branch" THEN "gitbranch" ELSE "testchanged"

\* all commands of cmds are among those of all
Includes(all, cmds) == \A i \in 1..Len(cmds) : HasCmd(all, cmds[i])

\* C19: under the app shell, in every reachable state (whatever the active
\* child and its state), a tool-selected message with a registered ID makes
\* the active child the initial state of that tool, leaves the shell's
\* other fields as they were, and returns the new child's Init commands and
\* the window size replay and nothing of the previous child.
C19_ToolSelectedStartsFresh ==
  UnderApp =>
    \A i \in 1..Len(RegistryTools) :
      \E r \in {App_Update(model, ToolSelectedMsg(RegistryTools[i]))} :
        /\ ~r.panic
        /\ r.m.current.type = ToolType(RegistryTools[i])
        /\ r.m.current = RegistryNew(RegistryTools[i])
        /\ r.m.current.state = "Loading"
        /\ r.m.current.errSplash = ""
        /\ r.m = [model EXCEPT !.current = r.m.current]
        /\ Includes(r.cmd, Child_Init(r.m.current))
        /\ r.cmd = Child_Init(r.m.current) \o <<CmdWindowSize(model.windowSize)>>

\* the shell has just replaced the home screen by a new git-branch instance
C19_Witness ==
  /\ UnderApp
  /\ Tool = GB_New
  /\ CmdFetchBranches \in Running({"fetchBranches"})
  /\ CmdWindowSize(model.windowSize) \in Running({"windowSize"})

\* an ID that no tool registered
UnknownID == "nonexistent"

\* a tool-selected message for an unregistered ID is sent to the program
\* from outside (tea.Program.Send), as the shell's tests do
SendUnknownTool ==
  /\ status = "running"
  /\ UnderApp
  /\ Step(ToolSelectedMsg(UnknownID), NoCmd)

NextSend == Next \/ SendUnknownTool

SpecSend == Init /\ [][NextSend]_vars

\* C20: under the app shell, in every reachable state, a tool-selected
\* message whose ID is not registered changes nothing: the shell and its
\* active child are as before, the program keeps running, and no command is
\* issued.
C20_UnknownToolIgnored ==
  UnderApp =>
    /\ App_Update(model, ToolSelectedMsg(UnknownID)) = Ret(model, <<>>)
    /\ \E t \in {Turn(model, pending, ToolSelectedMsg(UnknownID), NoCmd)} :
         /\ t.status = "running"
         /\ t.model = model
         /\ t.pending = pending

\* the shell shows a git-branch list that a new instance would not have
C20_Witness ==
  /\ UnderApp
  /\ InGB
  /\ Tool.state = "Browse"
  /\ Len(Tool.branches) > 0
  /\ Tool # GB_New
  /\ ENABLED SendUnknownTool

\* the navigate-back message
BackMsg == [type |-> "BackMsg"]

\* C21: under the app shell, in every reachable state (whatever the active
\* child and its state), navigate-back makes the active child a new home
\* screen with cursor 0 and no update state, leaves the shell's other
\* fields as they were, and returns the home screen's Init command (the
\* update check, for a release build) and the window size replay and
\* nothing of the previous child.
C21_BackStartsFreshHome ==
  UnderApp =>
    \E r \in {App_Update(model, BackMsg)} :
      /\ ~r.panic
      /\ r.m = [model EXCEPT !.current = r.m.current]
      /\ r.m.current.type = "home"
      /\ r.m.current.cursor = 0
      /\ r.m.current.version = model.version
      /\ r.m.current.updateTag = <<>>
      /\ ~r.m.current.updating
      /\ ~r.m.current.updated
      /\ r.m.current.updateErr = ""
      /\ r.cmd = (IF model.version = Dev THEN <<>>
                  ELSE <<checkForUpdate(model.version)>>)
                 \o <<CmdWindowSize(model.windowSize)>>

\* a release build is back on a new home screen whose update check and
\* window size replay are still running
C21_Witness ==
  /\ UnderApp
  /\ model.version # Dev
  /\ Tool = Home_New(model.version)
  /\ checkForUpdate(model.version) \in Running({"checkForUpdate"})
  /\ CmdWindowSize(model.windowSize) \in Running({"windowSize"})

\* C22: while the program runs, under the app shell and under the
\* standalone adapter alike, whatever the child and its state (waiting,
\* text input, error splash), ctrl+c returns the quit command alone and
\* the model as it was, so the child's Update has not seen the key, and
\* the event loop ends.
C22_InterruptQuits ==
  status = "running" =>
    /\ Top_Update(model, KeyMsg("ctrl+c")) = Ret(model, <<CmdQuit>>)
    /\ Turn(model, pending, KeyMsg("ctrl+c"), NoCmd).status = "quit"

\* the standalone git-branch is waiting for a git operation and takes keys
C22_Witness ==
  /\ status = "running"
  /\ ~UnderApp
  /\ InGB
  /\ Tool.state = "Processing"
  /\ sized
  /\ "ctrl+c" \in KeysNow

\* the messages that can reach the program in this state, the interrupt
\* key and navigate-back apart
PassedMsgs ==
  {KeyMsg(k) : k \in Keys \ {"ctrl+c"}}
    \cup {WindowSizeMsg(Size1), [type |-> "TickMsg"]}
    \cup ((UNION {Results(c) : c \in BagToSet(pending)}) \ {NilMsg, BackMsg})

\* C23: under the standalone adapter, navigate-back returns the quit
\* command and the adapter as it was (the tool has not seen it); for every
\* other message apart from the interrupt key, the adapter returns the
\* tool's Update of that message: the tool's returned state inside a
\* standalone wrapper and the tool's returned command unchanged.
C23_StandaloneDelegates ==
  (status = "running" /\ ~UnderApp) =>
    /\ Standalone_Update(model, BackMsg) = Ret(model, <<CmdQuit>>)
    /\ \A msg \in PassedMsgs :
         \E r \in {Child_Update(model.inner, msg)} :
           \E got \in {Standalone_Update(model, msg)} :
             /\ got.m = Standalone(r.m)
             /\ got.m.type = "standalone"
             /\ got.cmd = r.cmd
             /\ got.panic = r.panic

\* the wrapped test-changed has taken the loaded targets and started a run
C23_Witness ==
  /\ ~UnderApp
  /\ model.type = "standalone"
  /\ InTC
  /\ model.inner.state = "Running"
  /\ Running({"streamLines"}) # {}

\* the home screen is the active child
OnHome == UnderApp /\ Tool.type = "home"

\* C24: on the home screen the cursor is an index of the registry; up on
\* the first tool and down on the last leave it where it is, up and down
\* elsewhere move it by one; enter and space return the tool-selected
\* command for the registry entry at the cursor and the home screen as it
\* was.
C24_HomeCursorAndSelect ==
  OnHome =>
    /\ Tool.cursor \in 0..(Len(RegistryTools) - 1)
    /\ \A k \in {"up", "k"} :
         Home_Update(Tool, KeyMsg(k)) =
           Ret([Tool EXCEPT !.cursor = IF @ = 0 THEN 0 ELSE @ - 1], <<>>)
    /\ \A k \in {"down", "j"} :
         Home_Update(Tool, KeyMsg(k)) =
           Ret([Tool EXCEPT !.cursor = IF @ = Len(RegistryTools) - 1 THEN @ ELSE @ + 1],
               <<>>)
    /\ \A k \in {"enter", " "} :
         Home_Update(Tool, KeyMsg(k)) =
           Ret(Tool, <<[kind |-> "ToolSelectedMsg", ID |-> RegistryTools[Tool.cursor + 1]]>>)

\* the last tool of the list has been selected on the home screen
C24_Witness ==
  /\ OnHome
  /\ Tool.cursor = Len(RegistryTools) - 1
  /\ [kind |-> "ToolSelectedMsg", ID |-> "test-changed"] \in Running({"ToolSelectedMsg"})

\* the home screen after a running command completed with msg; a command
\* that returns nil delivers nothing
HomeAfter(msg) == IF msg = NilMsg THEN Tool ELSE Home_Update(Tool, msg).m

\* C25: on the home screen, when the running update check fails and when
\* the running update download fails, the home screen afterwards holds a
\* non-empty failure text, and it still moves the cursor on up and down and
\* selects a tool on enter.
C25_UpdateFailureInBanner ==
  OnHome =>
    /\ \A c \in Running({"checkForUpdate"}) :
         HomeAfter(RunCheckForUpdate(c, <<>>)).updateErr # ""
    /\ \A c \in Running({"runUpdate"}) : \A msg \in Results(c) :
         msg.Err # NoErr =>
           \E h \in {HomeAfter(msg)} :
             /\ h.updateErr # ""
             /\ ~h.updating
             /\ Home_Update(h, KeyMsg("down")).m.cursor = Home_down(h).cursor
             /\ HasKind(Home_Update(h, KeyMsg("enter")).cmd, "ToolSelectedMsg")

\* ------------------------------------------- the version comparator
\* the segments of the version texts compared: 3, 10, 9999 and 10000
SegmentTexts ==
  {<<"3">>, <<"1", "0">>, <<"9", "9", "9", "9">>, <<"1", "0", "0", "0", "0">>}

\* the version texts compared: two dot-separated segments
VersionTexts == {a \o <<".">> \o b : a, b \in SegmentTexts}

\* a call of updater.IsNewer that has not yet returned
IsNewerCall(current, latest) ==
  [type |-> "IsNewer", current |-> current, latest |-> latest,
   returned |-> FALSE, newer |-> FALSE]

InitVer ==
  /\ model \in {IsNewerCall(c, l) : c \in VersionTexts \cup {Dev}, l \in VersionTexts}
  /\ pending = EmptyBag
  /\ status = "running"
  /\ sized = FALSE

\* IsNewer returns
IsNewerReturns ==
  /\ ~model.returned
  /\ model' = [model EXCEPT !.returned = TRUE,
                            !.newer = IsNewer(model.current, model.latest)]
  /\ UNCHANGED <<pending, status, sized>>

NextVer == IsNewerReturns

SpecVer == InitVer /\ [][NextVer]_vars

Digits == <<"0", "1", "2", "3", "4", "5", "6", "7", "8", "9">>
DigitValue(c) == (CHOOSE i \in 1..Len(Digits) : Digits[i] = c) - 1

\* the number a segment's decimal digits denote
RECURSIVE NumberOf(_)
NumberOf(seg) ==
  IF seg = <<>> THEN 0
  ELSE NumberOf(SubSeq(seg, 1, Len(seg) - 1)) * 10 + DigitValue(seg[Len(seg)])

\* the numbers of the dot-separated segments of a version text
NumbersOf(v) ==
  [i \in 1..Len(SplitDots(v, 1, <<>>)) |-> NumberOf(SplitDots(v, 1, <<>>)[i])]

\* a is greater than b segment by segment, the first difference deciding
NumericGreater(a, b) ==
  \E i \in 1..Len(a) :
    /\ i <= Len(b)
    /\ a[i] > b[i]
    /\ \A j \in 1..(i - 1) : a[j] = b[j]

\* C26: what IsNewer(current, latest) returns is true exactly when latest
\* is greater than current under the segment-by-segment numeric comparison
\* of their dot-separated segments; it is false for equal versions and
\* false whenever current is "dev".
C26_IsNewerNumeric ==
  (model.type = "IsNewer" /\ model.returned) =>
    /\ model.current = Dev => ~model.newer
    /\ model.current = model.latest => ~model.newer
    /\ model.current # Dev =>
         (model.newer <=>
            NumericGreater(NumbersOf(model.latest), NumbersOf(model.current)))

\* ------------------------- the tick-driven revision of the git-branch model
\* len(spinnerFrames)
spinnerFrames == 10

\* tick(): tea.Tick of 100ms returning tickMsg
tick == [kind |-> "tick"]
tickMsg == [type |-> "tickMsg"]

Tick_New ==
  [type |-> "gitbranch", state |-> "Loading", branches |-> <<>>, cursor |-> 0,
   input |-> <<>>, editing |-> ZeroBranch, didRemote |-> FALSE,
   result |-> <<>>, errSplash |-> "", confirmIdx |-> 0, spinnerFrame |-> 0,
   deleteStaged |-> FALSE, deleteStagedIdx |-> 0]

Tick_Init(m) == <<CmdFetchBranches, tick>>

\* startAsync of this revision: the handlers call it where the current
\* revision's do; it restarts the spinner and batches the operation with tick()
Tick_startAsync(r) ==
  IF Len(r.cmd) = 4 /\ r.cmd[2] = CmdSpinnerTick
    THEN [m |-> [r.m EXCEPT !.spinnerFrame = 0], cmd |-> <<r.cmd[1], tick>>,
          panic |-> r.panic]
    ELSE r

\* variant: the tick is re-issued in every view-state
Tick_onTick_AnyState(m) ==
  Ret([m EXCEPT !.spinnerFrame = (@ + 1) % spinnerFrames], <<tick>>)

\* case tickMsg
Tick_onTick(m) ==
  IF m.state \in {"Loading", "Processing"}
    THEN Ret([m EXCEPT !.spinnerFrame = (@ + 1) % spinnerFrames], <<tick>>)
    ELSE Ret(m, <<>>)

\* handleKey of this revision: every key-handling state quits on ctrl+c,
\* the other keys are handled as in the current revision
Tick_handleKey(m, k) ==
  IF k = "ctrl+c" /\ m.state \notin {"Loading", "Processing"}
    THEN Ret(IF m.state = "Browse" THEN GB_clearStaging(m, k) ELSE m, <<CmdQuit>>)
    ELSE Tick_startAsync(GB_handleKey(m, k))

ResultTypes ==
  {"branchesLoadedMsg", "renameResultMsg", "deleteResultMsg",
   "createResultMsg", "checkoutResultMsg"}

Tick_Dispatch(m, msg) ==
  CASE msg.type = "tickMsg" -> Tick_onTick(m)
    [] msg.type \in ResultTypes -> Tick_startAsync(GB_Dispatch(m, msg))
    [] msg.type = "KeyMsg" -> Tick_handleKey(m, msg.key)
    [] OTHER -> Ret(m, <<>>)

\* variant: a tick dismisses the error splash as a key press does
Tick_Update_TickDismisses(m, msg) ==
  IF m.errSplash # "" /\ msg.type \in {"KeyMsg", "tickMsg"}
    THEN Ret([m EXCEPT !.errSplash = ""], <<>>)
    ELSE Tick_Dispatch(m, msg)

Tick_Update(m, msg) ==
  IF m.errSplash # "" /\ msg.type = "KeyMsg"
    THEN Ret([m EXCEPT !.errSplash = ""], <<>>)
    ELSE Tick_Dispatch(m, msg)

\* the cap on the tick commands in flight: each startAsync adds one, and one
\* ends only when its message arrives outside Loading and Processing
MaxTicks == 2

InitTick ==
  /\ model = Tick_New
  /\ pending = AddAll(EmptyBag, Tick_Init(model))
  /\ status = "running"
  /\ sized = FALSE

\* one step of the program run on the tick-driven model
StepTick(msg, run) ==
  /\ status = "running"
  /\ \E t \in {Started(Tick_Update(model, msg), pending, run)} :
       /\ CopiesIn(tick, t.pending) <= MaxTicks
       /\ status' = t.status
       /\ IF t.status = "running"
            THEN model' = t.model /\ pending' = t.pending
            ELSE model' = Exited /\ pending' = EmptyBag
  /\ UNCHANGED sized

\* the keys the user presses in the runs of this revision
TickKeysNow ==
  IF model.state \in {"Edit", "Create"} THEN {"a", "enter", "esc", "ctrl+c"}
  ELSE IF model.state = "ConfirmRemote" THEN {"y", "n", "esc", "ctrl+c"}
  ELSE {"down", "enter", "d", "r", "e", "ctrl+c"}

TickKeyPress ==
  /\ status = "running"
  /\ \E k \in TickKeysNow : StepTick(KeyMsg(k), NoCmd)

TickFetchDone ==
  \E c \in Running({"fetchBranches"}) : \E msg \in Results(c) : StepTick(msg, c)

TickGitOpDone ==
  \E c \in Running(GitOpKinds) : \E msg \in Results(c) : StepTick(msg, c)

\* a tick command completes and its tickMsg is delivered
TickDelivered == \E c \in Running({"tick"}) : StepTick(tickMsg, c)

NextTick ==
  \/ TickKeyPress
  \/ TickFetchDone
  \/ TickGitOpDone
  \/ TickDelivered

SpecTick == InitTick /\ [][NextTick]_vars

\* the tick-driven model after n tick messages
RECURSIVE AfterTicks(_, _)
AfterTicks(m, n) ==
  IF n = 0 THEN m ELSE AfterTicks(Tick_Update(m, tickMsg).m, n - 1)

\* the view-state, the branch list, the cursor and the error splash
Shown(m) == <<m.state, m.branches, m.cursor, m.errSplash>>

TickWaiting == status = "running" /\ model.state \in {"Loading", "Processing"}

\* C27: while a git operation batched with a tick is in flight, for each of
\* its results the view-state, branch list, cursor and error splash after
\* the result and the tick messages are the same whether i ticks arrive
\* before the result and j after it, for all i + j up to MaxTicks.
C27_TickOrderIrrelevant ==
  status = "running" =>
    \A c \in Running({"fetchBranches"} \cup GitOpKinds) : \A msg \in Results(c) :
      \E direct \in {Shown(Tick_Update(model, msg).m)} :
        \A i, j \in 0..MaxTicks :
          i + j <= MaxTicks =>
            Shown(AfterTicks(Tick_Update(AfterTicks(model, i), msg).m, j)) = direct

\* a failed fetch was delivered after one tick, whose successor is still due
C27_Witness ==
  /\ status = "running"
  /\ model.state = "Browse"
  /\ model.errSplash # ""
  /\ model.spinnerFrame = 1
  /\ Running({"tick"}) # {}

\* C28: in the tick-driven model a tick message received in Loading or
\* Processing advances the spinner frame by one modulo the number of frames,
\* changes no other field and returns exactly one tick command; received in
\* any other view-state it changes nothing and returns no command, so the
\* tick in flight ends there.
C28_TickOnlyWhileWaiting ==
  status = "running" =>
    /\ TickWaiting =>
         Tick_Update(model, tickMsg) =
           Ret([model EXCEPT !.spinnerFrame = (model.spinnerFrame + 1) % spinnerFrames],
               <<tick>>)
    /\ ~TickWaiting =>
         /\ Tick_Update(model, tickMsg) = Ret(model, <<>>)
         /\ \A c \in Running({"tick"}) :
              CopiesIn(tick, Started(Tick_Update(model, tickMsg), pending, c).pending)
                = CopiesIn(tick, pending) - 1
    /\ model.spinnerFrame \in 0..(spinnerFrames - 1)

\* the spinner advanced to its last frame and the ticking has stopped on
\* the branch list
C28_Witness ==
  /\ status = "running"
  /\ model.state = "Browse"
  /\ model.spinnerFrame = spinnerFrames - 1
  /\ Running({"tick"}) = {}

\* the number of git operation commands in a bag of commands
GitOpsIn(bag) ==
  BagCardinality([c \in {d \in BagToSet(bag) : d.kind \in GitKinds} |-> CopiesIn(c, bag)])

\* the messages the running program can receive next: a key, the size, a
\* timer message, the result of a running command
NextMsgs ==
  {<<KeyMsg(k), NoCmd>> : k \in Keys}
    \cup {<<WindowSizeMsg(Size1), NoCmd>>, <<[type |-> "TickMsg"], NoCmd>>}
    \cup UNION {{<<msg, c>> : msg \in Results(c) \ {NilMsg}} : c \in BagToSet(pending)}

\* C29: in a run of one git-branch instance wrapped in the standalone
\* adapter, a key press received in Loading or Processing leaves every field
\* of the tool as it is and returns no command; one git operation command is
\* in flight when the view-state is Loading or Processing and none
\* otherwise, and no next message makes it more than one.
C29_OneGitOpInFlight ==
  (status = "running" /\ ~UnderApp /\ InGB) =>
    /\ Tool.state \in Waiting =>
         \A k \in Keys : GB_Update(Tool, KeyMsg(k)) = Ret(Tool, <<>>)
    /\ GitOpsIn(pending) = (IF Tool.state \in Waiting THEN 1 ELSE 0)
    /\ \A mr \in NextMsgs :
         GitOpsIn(Turn(model, pending, mr[1], mr[2]).pending) <= 1

\* a reload started from the branch list is in flight
C29_Witness ==
  /\ status = "running"
  /\ ~UnderApp
  /\ InGB
  /\ Tool.state = "Loading"
  /\ Tool.branches # <<>>
  /\ GitOpsIn(pending) = 1
  /\ sized

\* ------------------------- `rig tc` with commands that run to completion
InitTC ==
  /\ model = Standalone(TC_New)
  /\ pending = AddAll(EmptyBag, Top_Init(model))
  /\ status = "running"
  /\ sized = FALSE

Size2 == [Width |-> 100, Height |-> 30]

\* the user resizes the terminal
ResizeLater ==
  /\ sized
  /\ \E size \in {Size1, Size2} : Step(WindowSizeMsg(size), NoCmd)

NextTC ==
  \/ KeyPress
  \/ Resize
  \/ ResizeLater
  \/ TimerFires
  \/ LoadTargetsDone
  \/ StreamLinesDone
  \/ BackDelivered

\* every issued command eventually runs and its message is delivered
SpecTC ==
  /\ InitTC
  /\ [][NextTC]_vars
  /\ WF_vars(LoadTargetsDone)
  /\ WF_vars(StreamLinesDone)
  /\ WF_vars(BackDelivered)

TCIn(states) == status = "running" /\ Tool.state \in states

\* C30: in test-changed, with every issued command running to completion,
\* Running is always eventually followed by Results or Browse (or the user
\* quits), and Loading is always eventually followed by Browse (or the user
\* quits).
C30_RunAndLoadEnd ==
  /\ TCIn({"Running"}) ~> (TCIn({"Results", "Browse"}) \/ status # "running")
  /\ TCIn({"Loading"}) ~> (TCIn({"Browse"}) \/ status # "running")

\* the git operation commands among cmds
GitCmdsOf(cmds) == {cmds[i] : i \in {j \in 1..Len(cmds) : cmds[j].kind \in GitKinds}}

\* the view-state, the branch list and the cursor of a git-branch instance
Visible(c) == <<c.state, c.branches, c.cursor>>

\* two selections of git-branch are on their way to the shell and no git
\* operation is in flight
TwoSelections ==
  /\ status = "running"
  /\ UnderApp
  /\ GitOpsIn(pending) = 0
  /\ CopiesIn(CmdToolSelected("git-branch"), pending) >= 2

\* C31: under the app shell, when a second tool-selected message replaces a
\* git-branch instance by a new one, no result of a command issued by the
\* replaced instance changes the view-state, branch list or cursor of the
\* new instance.
C31_StaleResultIgnored ==
  TwoSelections =>
    \E first \in {App_Update(model, ToolSelectedMsg("git-branch"))} :
      \E second \in {App_Update(first.m, ToolSelectedMsg("git-branch"))} :
        \A c \in GitCmdsOf(first.cmd) : \A msg \in Results(c) :
          Visible(App_Update(second.m, msg).m.current) = Visible(second.m.current)

\* C32: in every reachable state of a git-branch instance, when delete
\* staging is active the view-state is Browse, the staged index is the
\* cursor, it is an index of the branch list, and the branch there is not
\* the current branch.
C32_StagingWellFormed ==
  (InGB /\ Tool.deleteStaged) =>
    /\ Tool.state = "Browse"
    /\ Tool.deleteStagedIdx = Tool.cursor
    /\ Tool.deleteStagedIdx \in 0..(Len(Tool.branches) - 1)
    /\ ~Tool.branches[Tool.deleteStagedIdx + 1].IsCurrent

\* the names carried by the delete commands among cmds
DeletedNames(cmds) ==
  {cmds[i].name : i \in {j \in 1..Len(cmds) : cmds[j].kind = "cmdDelete"}}

\* the name of the branch under the cursor
UnderCursor(m) == m.branches[m.cursor + 1].Name

\* C33: in git-branch Browse, when a delete press stages the branch under
\* the cursor, the delete command issued by the second press carries that
\* branch's name, also when a branch-list result of a command in flight is
\* handled between the two presses.
C33_DeleteTakesStagedBranch ==
  (InGB /\ Browsing(Tool)) =>
    \E staged \in {GB_Update(Tool, KeyMsg("d")).m} :
      staged.deleteStaged =>
        /\ DeletedNames(GB_Update(staged, KeyMsg("d")).cmd) = {UnderCursor(Tool)}
        /\ \A c \in Running({"fetchBranches"}) : \A msg \in Results(c) :
             DeletedNames(GB_Update(GB_Update(staged, msg).m, KeyMsg("d")).cmd)
               \subseteq {UnderCursor(Tool)}

\* the messages other than key presses that can arrive next: the size, a
\* timer message, the result of a running command
NonKeyMsgs ==
  {WindowSizeMsg(Size1), [type |-> "TickMsg"]}
    \cup ((UNION {Results(c) : c \in Running(GitKinds)}) \ {NilMsg})

\* C34: in every reachable state of a git-branch instance with a non-empty
\* error splash the view-state is Browse, no git operation command of the
\* instance is in flight, and no resize, timer or result message clears the
\* splash.  Under the app shell the commands of the instance are told from
\* those of a replaced instance where a second selection replaces the first.
C34_SplashOnlyInBrowse ==
  /\ (InGB /\ Tool.errSplash # "") =>
       /\ Tool.state = "Browse"
       /\ ~UnderApp => GitOpsIn(pending) = 0
       /\ \A msg \in NonKeyMsgs : GB_Update(Tool, msg).m.errSplash # ""
  /\ TwoSelections =>
       \E first \in {App_Update(model, ToolSelectedMsg("git-branch"))} :
         \E second \in {App_Update(first.m, ToolSelectedMsg("git-branch"))} :
           \A c \in GitCmdsOf(first.cmd) : \A msg \in Results(c) :
             App_Update(second.m, msg).m.current.errSplash # "" =>
               GitCmdsOf(second.cmd) = {}

\* C35: in the tick-driven git-branch model at most one tick command is
\* in flight in every reachable state.
C35_OneTickPending == CopiesIn(tick, pending) <= 1

\* the key chooses Yes on the remote-rename prompt
ChoosesYes(m, k) == k = "y" \/ (k \in {"enter", " "} /\ m.confirmIdx = 0)

\* the key chooses No on the remote-rename prompt
ChoosesNo(m, k) == k = "n" \/ (k \in {"enter", " "} /\ m.confirmIdx = 1)

\* C36: in git-branch, a key issues the rename that touches the remote
\* only on the remote-rename prompt and only by choosing Yes, and no other
\* message issues it; choosing No issues the local-only rename; whenever a
\* rename command is issued, didRemote is true exactly when it is the one
\* touching the remote; and the prompt is entered only for a branch that
\* tracks a remote, with Yes preselected.
C36_RemoteRenameOnlyOnYes ==
  InGB =>
    /\ \A k \in Keys : \E r \in {GB_Update(Tool, KeyMsg(k))} :
         /\ HasKind(r.cmd, "cmdRenameAll") <=>
              (Tool.state = "ConfirmRemote" /\ Tool.errSplash = "" /\ ChoosesYes(Tool, k))
         /\ (Tool.state = "ConfirmRemote" /\ Tool.errSplash = "" /\ ChoosesNo(Tool, k)) =>
              HasKind(r.cmd, "cmdRenameLocal")
         /\ (HasKind(r.cmd, "cmdRenameAll") \/ HasKind(r.cmd, "cmdRenameLocal")) =>
              (r.m.didRemote <=> HasKind(r.cmd, "cmdRenameAll"))
         /\ (Tool.state # "ConfirmRemote" /\ r.m.state = "ConfirmRemote") =>
              (Tool.editing.HasRemote /\ r.m.confirmIdx = 0)
    /\ \A msg \in NonKeyMsgs : \E r \in {GB_Update(Tool, msg)} :
         /\ ~HasKind(r.cmd, "cmdRenameAll")
         /\ ~(Tool.state # "ConfirmRemote" /\ r.m.state = "ConfirmRemote")

\* the home screen's answer to the message starts a download
StartsDownload(msg) == HasKind(Home_Update(Tool, msg).cmd, "runUpdate")

\* C37: the home screen issues the download-and-replace command only on
\* key u with an update tag received, never while a download is in flight
\* and never after one succeeded, and on no other message; after a failed
\* download u issues it again and clears the failure text; with version
\* "dev" no update check and no download is ever in flight.
C37_DownloadOnlyOnRequest ==
  /\ OnHome =>
       /\ \A k \in Keys :
            StartsDownload(KeyMsg(k)) =>
              /\ k = "u"
              /\ Tool.updateTag # <<>>
              /\ ~Tool.updated
              /\ Running({"runUpdate"}) = {}
       /\ \A msg \in {WindowSizeMsg(Size1), [type |-> "TickMsg"]}
                       \cup ((UNION {Results(c) : c \in BagToSet(pending)}) \ {NilMsg}) :
            ~StartsDownload(msg)
       /\ (Tool.updateErr # "" /\ Tool.updateTag # <<>>) =>
            /\ StartsDownload(KeyMsg("u"))
            /\ Home_Update(Tool, KeyMsg("u")).m.updateErr = ""
  /\ (UnderApp /\ model.version = Dev) =>
       Running({"checkForUpdate", "runUpdate"}) = {}

\* the window size a screen last received, from the fields it keeps of it
ChildSize(c) ==
  IF c.type = "testchanged"
    THEN [Width |-> c.vpWidth + 6, Height |-> c.vpHeight + 10]
    ELSE [Width |-> c.width, Height |-> c.height]

\* C38: under the app shell, while the size message replayed by a switch of
\* screens is in flight, when the terminal is resized and the replayed
\* message is delivered after the resize, the size stored by the shell and
\* the size last received by the child are the size of the resize.
C38_ReplayKeepsLatestSize ==
  (status = "running" /\ UnderApp) =>
    \A c \in Running({"windowSize"}) :
      \E resized \in {App_Update(model, WindowSizeMsg(Size2)).m} :
        \E replayed \in {App_Update(resized, WindowSizeMsg(c.size)).m} :
          /\ resized.windowSize = Size2
          /\ replayed.windowSize = Size2
          /\ ChildSize(replayed.current) = Size2

\* C39: in every reachable state of git-branch with a non-empty branch
\* list the cursor is an index of the list, the select, rename and delete
\* keys find a branch at the cursor, and the program never ends with an
\* index out of range.
C39_CursorInNonEmptyList ==
  /\ status # "panic"
  /\ (InGB /\ Tool.branches # <<>>) =>
       /\ Tool.cursor \in 0..(Len(Tool.branches) - 1)
       /\ \A k \in {"enter", "e", "d"} :
            ~GB_Update(Tool, KeyMsg(k)).panic

\* a reload is in flight with the cursor on the second of two branches, and
\* the list it returns with one branch puts the cursor on that branch
C39_Witness ==
  /\ InGB
  /\ Tool.state = "Loading"
  /\ Len(Tool.branches) = 2
  /\ Tool.cursor = 1
  /\ \E c \in Running({"fetchBranches"}) : \E msg \in Results(c) :
       /\ msg.err = NoErr
       /\ Len(msg.branches) = 1
       /\ GB_Update(Tool, msg).m.cursor = 0

\* ------------------------------------------- splitUpstream on its own
\* the longest upstream text split
MaxUpstreamLen == 5

UpstreamChars == {"o", "a", "/"}

\* the upstream texts split: every text over UpstreamChars up to the bound
UpstreamTexts == UNION {[1..n -> UpstreamChars] : n \in 0..MaxUpstreamLen}

\* a call of splitUpstream that has not yet returned
SplitCall(s) ==
  [type |-> "splitUpstream", upstream |-> s, returned |-> FALSE,
   remote |-> <<>>, branch |-> <<>>]

InitSplit ==
  /\ model \in {SplitCall(s) : s \in UpstreamTexts}
  /\ pending = EmptyBag
  /\ status = "running"
  /\ sized = FALSE

\* splitUpstream returns
SplitReturns ==
  /\ ~model.returned
  /\ model' = [model EXCEPT !.returned = TRUE,
                            !.remote = splitUpstream(model.upstream).remote,
                            !.branch = splitUpstream(model.upstream).branch]
  /\ UNCHANGED <<pending, status, sized>>

NextSplit == SplitReturns

SpecSplit == InitSplit /\ [][NextSplit]_vars

HasSlash(s) == \E i \in 1..Len(s) : s[i] = "/"

\* C40: what splitUpstream(s) returns: for s with a "/", remote has no
\* "/" and remote, "/" and branch joined give s, so the split is at the
\* first "/" and later ones stay in branch; for s without "/", the empty
\* text included, remote and branch are both s.
C40_SplitAtFirstSlash ==
  (model.type = "splitUpstream" /\ model.returned) =>
    IF HasSlash(model.upstream)
      THEN /\ ~HasSlash(model.remote)
           /\ model.remote \o <<"/">> \o model.branch = model.upstream
      ELSE model.remote = model.upstream /\ model.branch = model.upstream

\* "o/a/a" has been split into "o" and "a/a"
C40_Witness ==
  /\ model.type = "splitUpstream"
  /\ model.returned
  /\ model.upstream = <<"o", "/", "a", "/", "a">>
  /\ model.remote = <<"o">>
  /\ model.branch = <<"a", "/", "a">>

====
